---- MODULE Spec2Model ----
(***************************************************************************)
(* The <pdf-viewer> component of src/frontend/src/components/pdf-viewer/   *)
(* pdf-viewer.ts (class PdfViewer, lines 11-405) as a state machine.       *)
(*                                                                         *)
(* Scales are counted in quarters: the code's 0.25 zoom step is 1, the     *)
(* default 1.5 is 6, the zoom limits 0.5 and 3.0 are 2 and 12.  Quarters   *)
(* are exact in binary floating point, so the arithmetic of zoomIn and     *)
(* zoomOut is the integer arithmetic below.                                *)
(*                                                                         *)
(* A document source is named by the number of pages of its document.      *)
(*                                                                         *)
(* Every invocation of the async method renderPage is a task: a record of  *)
(* its rank among the invocations (id), the await it is suspended at (pc), *)
(* the scale of the viewport it built at line 225 (vs) and the generation  *)
(* of the page elements it looked up at lines 227-235 (gen), and the       *)
(* document it called getPage on at line 224 (doc).  The page elements of  *)
(* the shadow DOM exist                                                    *)
(* while render() takes its last branch (lines 356-396); loadPDF sets      *)
(* loading, which replaces them by the loading text, and a later           *)
(* successful load creates fresh ones: domGen counts these generations.    *)
(*                                                                         *)
(* Lit runs updated() in the microtask that follows a property assignment, *)
(* before any observer callback or backend message is delivered, so an     *)
(* assignment to a reactive property and the updated() it triggers are one *)
(* action.                                                                 *)
(*                                                                         *)
(* The backend (pdf.js 3.11, line 9) is outside the repository: each of    *)
(* its promises resolves or rejects; page.render on a canvas that an       *)
(* earlier render of the same page is still drawing into rejects.          *)
(*                                                                         *)
(* The loadPDF invocations suspended at line 168 are counted per source.   *)
(* A source assigned while a load is pending (Overlap) and the first       *)
(* update of a viewer created with its source set (Attach) are explored    *)
(* together with navigation; the specifications with renders assign a      *)
(* source when no load is pending.                                         *)
(*                                                                         *)
(* Lengths of the text layer are in quarters of a pixel, as the scale is   *)
(* in quarters.  The text runs of a page are fixed per page number, with   *)
(* native transforms whose first column has an integer length.             *)
(*                                                                         *)
(* The events a step dispatches to the host are the ev field of lastOp.    *)
(***************************************************************************)
EXTENDS Integers, Sequences, FiniteSets, TLC

\* ---- bounds of the model ----
MaxPages == 2      \* pages of the largest document
MaxLoads == 2      \* document sources assigned in a run
MaxZooms == 2      \* changes of the scale in a run
MaxRenders == 3    \* renderPage invocations that pass the guard, in a run
MaxFaults == 1     \* backend promises rejected for a reason of the backend's
MaxSelLen == 3     \* characters of a selection

\* ---- program constants (quarters) ----
DefaultScale == 6
ZoomStep == 1
MinScale == 2
MaxScale == 12

\* the value the host assigns to the scale property: 3.5
HostScales == {14}

NoScale == 0 - 1   \* a canvas never sized, a text layer never built
NoDoc == 0         \* pdf undefined; pdfUrl ''

Pages == 1..MaxPages
Sources == 1..MaxPages

Chars == {" ", "a"}

VARIABLES
  pdfUrl,          \* @property pdfUrl (line 13)
  scale,           \* @property scale (line 14)
  pdf,             \* @state pdf (line 16): NoDoc or the loaded document
  numPages,        \* @state numPages (line 17)
  loading,         \* @state loading (line 18)
  error,           \* @state error (line 19): TRUE for the non-empty message
  currentPage,     \* @state currentPage (line 20)
  renderingPages,  \* private renderingPages (line 22)
  observer,        \* intersectionObserver (line 23): generation observed, 0 if none
  loadTasks,       \* per source, the loadPDF invocations suspended at line 168
  liveObservers,   \* IntersectionObservers created and not disconnected
  tasks,           \* per page number, the suspended renderPage invocations
  domGen,          \* generation of the page elements
  canvasSize,      \* per page, the scale that sized its canvas (lines 238-239)
  canvasPixels,    \* per page, the scale of the render that last drew into its canvas
  textLayer,       \* per page, the scale that sized and filled its text layer
  listeners,       \* per page, the mouseup listeners on its text layer (line 270)
  spans,           \* per page, the span elements of its text layer, in order
  drawnDoc,        \* per page, the document whose page was last drawn into its canvas
  pageElements,    \* the canvas and the textLayer elements in the shadow DOM
  connected,       \* the element is in the document (no disconnectedCallback yet)
  scrolledTo,      \* the page last passed to scrollIntoView (line 330), 0 if none
  reported,        \* pages ever reported as intersecting
  started,         \* pages for which a render ever started
  zoomedMid,       \* pages that had a render in flight at the last scale change
  renders,         \* renderPage invocations that passed the guard
  zooms,           \* changes of scale
  faults,          \* backend rejections
  conflicted,      \* a page.render was refused because its canvas was in use
  lastOp           \* the operation that led to this state

vars == <<pdfUrl, scale, pdf, numPages, loading, error, currentPage,
          renderingPages, observer, loadTasks, liveObservers, tasks, domGen,
          canvasSize, canvasPixels, textLayer, listeners, spans, drawnDoc,
          pageElements, connected, scrolledTo,
          reported, started, zoomedMid, renders, zooms, faults, conflicted,
          lastOp>>

domVars == <<canvasSize, canvasPixels, textLayer, listeners, spans, drawnDoc,
             pageElements>>
docVars == <<pdfUrl, pdf, numPages, loading, error, loadTasks, domGen, observer,
             liveObservers, connected>>

Op(name, arg, pages, sel, ev) ==
  [op |-> name, arg |-> arg, pages |-> pages, sel |-> sel, ev |-> ev]

\* render(), lines 343-396: the page elements exist in the last branch only
PagesDisplayed == ~loading /\ ~error /\ pdf # NoDoc

\* the page elements a querySelectorAll('.page') finds (lines 210, 281, 386)
PageContainers == IF PagesDisplayed THEN 1..numPages ELSE {}

Min(a, b) == IF a < b THEN a ELSE b
Max(a, b) == IF a > b THEN a ELSE b

BlankDom == [p \in Pages |-> NoScale]

\* line 224: getPage is called on the document that is loaded at this time
NewTask(id) == [id |-> id, pc |-> "getPage", vs |-> NoScale, gen |-> 0, doc |-> pdf]

InFlight(p) == Cardinality(tasks[p])

Init ==
  /\ pdfUrl = NoDoc
  /\ scale = DefaultScale
  /\ pdf = NoDoc
  /\ numPages = 0
  /\ loading = TRUE
  /\ error = FALSE
  /\ currentPage = 1
  /\ renderingPages = {}
  /\ observer = 0
  /\ loadTasks = [u \in Sources |-> 0]
  /\ liveObservers = 0
  /\ tasks = [p \in Pages |-> {}]
  /\ domGen = 0
  /\ canvasSize = BlankDom
  /\ canvasPixels = BlankDom
  /\ textLayer = BlankDom
  /\ listeners = [p \in Pages |-> 0]
  /\ spans = [p \in Pages |-> <<>>]
  /\ drawnDoc = [p \in Pages |-> NoDoc]
  /\ pageElements = [canvas |-> 0, textLayer |-> 0]
  /\ connected = TRUE
  /\ scrolledTo = 0
  /\ reported = {}
  /\ started = {}
  /\ zoomedMid = {}
  /\ renders = 0
  /\ zooms = 0
  /\ faults = 0
  /\ conflicted = FALSE
  /\ lastOp = Op("init", 0, {}, <<>>, <<>>)

\* ---- renderPage, synchronous part (lines 216-224) ----

\* lines 217-219: of the pages asked for, those whose invocation passes the
\* guard, given the in-flight set rp
RenderPageStarts(rp, ps) == IF pdf = NoDoc THEN {} ELSE ps \ rp

\* renderPage(p) for every p of ps in one synchronous run: each invocation that
\* passes the guard adds its page (line 221) and suspends at getPage (line 224);
\* the pages are asked for in page order (lines 191, 282)
RequestRenders(rp, ps) ==
  LET st == RenderPageStarts(rp, ps)
      rank(p) == renders + Cardinality({q \in st : q <= p}) IN
  /\ renders + Cardinality(st) <= MaxRenders
  /\ renders' = renders + Cardinality(st)
  /\ renderingPages' = rp \cup st
  /\ tasks' = [p \in Pages |->
                 IF p \in st THEN tasks[p] \cup {NewTask(rank(p))} ELSE tasks[p]]
  /\ started' = started \cup st

\* ---- document load (lines 153-180) ----

\* the loadPDF calls of firstUpdated (lines 147-151) and of updated (lines
\* 154-156) in one update
FirstUpdatedLoads(url) == IF url # NoDoc THEN 1 ELSE 0
UpdatedLoads(url, changed) == IF changed /\ url # NoDoc THEN 1 ELSE 0

\* the canvas and textLayer elements of the template (lines 343-396)
TemplateElements(l, e, d, n) ==
  IF ~l /\ ~e /\ d # NoDoc THEN [canvas |-> n, textLayer |-> n]
  ELSE [canvas |-> 0, textLayer |-> 0]

NoLoadInFlight == \A u \in Sources : loadTasks[u] = 0

\* a faulty variant: the observer in place is left observing
KeepsPrevious(n, cur) == n

\* lines 184-186 and 401-403: the observer in place, if any, is disconnected
AfterDisconnect(n, cur) == IF cur # 0 THEN n - 1 ELSE n

\* pdfUrl becomes u and an update runs n calls of loadPDF, each to line 168
StartLoads(u, n, name) ==
  /\ domGen < MaxLoads
  /\ pdfUrl' = u
  /\ loading' = TRUE
  /\ error' = FALSE
  /\ loadTasks' = [loadTasks EXCEPT ![u] = @ + n]
  /\ domGen' = domGen + 1
  /\ canvasSize' = BlankDom
  /\ canvasPixels' = BlankDom
  /\ textLayer' = BlankDom
  /\ listeners' = [p \in Pages |-> 0]
  /\ spans' = [p \in Pages |-> <<>>]
  /\ drawnDoc' = [p \in Pages |-> NoDoc]
  /\ pageElements' = TemplateElements(TRUE, FALSE, pdf, numPages)
  /\ zoomedMid' = {}
  /\ lastOp' = Op(name, u, {}, <<>>, <<>>)
  /\ UNCHANGED <<scale, pdf, numPages, currentPage, renderingPages, observer,
                 liveObservers, connected, tasks, scrolledTo, reported, started,
                 renders, zooms, faults, conflicted>>

\* the host assigns pdfUrl after the first update; updated() calls loadPDF
Open(u) ==
  /\ u # pdfUrl
  /\ StartLoads(u, UpdatedLoads(u, TRUE), "open")

\* the first update of a viewer created with pdfUrl = u (app-root, lines
\* 1449-1452): firstUpdated and then updated run, with pdfUrl among the
\* changed properties
Attach(u) ==
  /\ lastOp.op = "init"
  /\ StartLoads(u, FirstUpdatedLoads(u) + UpdatedLoads(u, TRUE), "attach")

\* the elements of the pages beyond n are removed
KeepPages(f, n, blank) == [p \in Pages |-> IF p <= n THEN f[p] ELSE blank]

\* lines 168-174: the document of source u arrives; the page elements are
\* created (or, when pages are displayed already, kept for the pages both
\* documents have) and setupIntersectionObserver observes them
LoadResolvedOf(u) ==
  /\ loadTasks[u] > 0
  /\ pdf' = u
  /\ numPages' = u
  /\ loading' = FALSE
  /\ observer' = domGen
  /\ liveObservers' = AfterDisconnect(liveObservers, observer) + 1
  /\ loadTasks' = [loadTasks EXCEPT ![u] = @ - 1]
  /\ canvasSize' = KeepPages(canvasSize, u, NoScale)
  /\ canvasPixels' = KeepPages(canvasPixels, u, NoScale)
  /\ textLayer' = KeepPages(textLayer, u, NoScale)
  /\ listeners' = KeepPages(listeners, u, 0)
  /\ spans' = KeepPages(spans, u, <<>>)
  /\ drawnDoc' = KeepPages(drawnDoc, u, NoDoc)
  /\ pageElements' = TemplateElements(FALSE, error, u, u)
  /\ lastOp' = Op("loadResolved", u, {}, <<>>, <<>>)
  /\ UNCHANGED <<pdfUrl, scale, error, currentPage, renderingPages, tasks, domGen,
                 connected, scrolledTo, reported, started, zoomedMid,
                 renders, zooms, faults, conflicted>>

LoadResolved == \E u \in Sources : LoadResolvedOf(u)

\* the events the catch block of loadPDF dispatches to the host (lines
\* 175-179: it logs to the console and sets error and loading; no
\* dispatchEvent)
LoadPDFCatchEvents == <<>>

\* lines 175-179
LoadRejectedOf(u) ==
  /\ loadTasks[u] > 0
  /\ error' = TRUE
  /\ loading' = FALSE
  /\ loadTasks' = [loadTasks EXCEPT ![u] = @ - 1]
  /\ pageElements' = TemplateElements(FALSE, TRUE, pdf, numPages)
  /\ lastOp' = Op("loadRejected", u, {}, <<>>, LoadPDFCatchEvents)
  /\ UNCHANGED <<pdfUrl, scale, pdf, numPages, currentPage, renderingPages,
                 observer, liveObservers, connected, tasks, domGen, canvasSize,
                 canvasPixels, textLayer, listeners, spans, drawnDoc,
                 scrolledTo, reported, started, zoomedMid, renders, zooms,
                 faults, conflicted>>

LoadRejected == \E u \in Sources : LoadRejectedOf(u)

\* ---- visibility (lines 189-201) ----

\* the observer's callback with the entries whose isIntersecting holds; an
\* element outside the document intersects nothing
Observe(batch) ==
  /\ connected
  /\ observer # 0
  /\ observer = domGen
  /\ batch # {}
  /\ batch \subseteq PageContainers
  /\ RequestRenders(renderingPages, batch)
  /\ reported' = reported \cup batch
  /\ lastOp' = Op("observe", 0, batch, <<>>, <<>>)
  /\ UNCHANGED <<docVars, scale, currentPage, domVars, scrolledTo, zoomedMid,
                 zooms, faults, conflicted>>

\* ---- scale (lines 153-160, 278-288, 310-320) ----

ZoomInScale(s) == Min(s + ZoomStep, MaxScale)
ZoomOutScale(s) == Max(s - ZoomStep, MinScale)
\* a faulty variant: resetZoom leaves the scale as it is
ResetKeepsScale(s) == s

\* line 319
ResetScale(s) == DefaultScale
\* the scale property has no setter of its own: the host's value is stored as is
HostScale(v) == v

\* a faulty variant: only the current page is re-rendered
RerenderCurrentPage == PageContainers \cap {currentPage}

\* the pages rerenderVisiblePages asks renderPage for (lines 281-287)
RerenderPages == PageContainers

\* an assignment to scale, and updated() when the value changed
AssignScale(new, name, arg) ==
  /\ lastOp' = Op(name, arg, IF new # scale /\ pdf # NoDoc THEN RerenderPages ELSE {},
                  <<>>, <<>>)
  /\ UNCHANGED <<docVars, currentPage, domVars, scrolledTo, reported, faults,
                 conflicted>>
  /\ IF new = scale
       THEN UNCHANGED <<scale, zooms, zoomedMid, renders, renderingPages, tasks,
                        started>>
       ELSE /\ zooms < MaxZooms
            /\ zooms' = zooms + 1
            /\ scale' = new
            /\ zoomedMid' = {p \in PageContainers : tasks[p] # {}}
            /\ IF pdf # NoDoc
                 THEN RequestRenders({}, RerenderPages)
                 ELSE UNCHANGED <<renders, renderingPages, tasks, started>>

ZoomIn == AssignScale(ZoomInScale(scale), "zoomIn", 0)
ZoomOut == AssignScale(ZoomOutScale(scale), "zoomOut", 0)
ResetZoom == AssignScale(ResetScale(scale), "resetZoom", 0)
SetScale(v) == AssignScale(HostScale(v), "setScale", v)

\* ---- renderPage, after each await (lines 224-275) ----

\* a faulty variant: a failed render forgets every page in flight
FinallyClearsAll(rp, pageNum) == {}

\* a faulty variant: the page stays in the in-flight set
FinallyKeepsPage(rp, pageNum) == rp

\* finally (line 274): the in-flight set after renderPage(pageNum) ends
FinallyPages(rp, pageNum) == rp \ {pageNum}

\* -- the text layer (lines 245-267) --

\* the height of every page, in points
PageHeight == 10

\* the text runs getTextContent returns for page p: str and the run's native
\* transform [a, b, c, d, e, f]
TextContent(p) ==
  IF p = 1
    THEN << [str |-> "a", transform |-> <<1, 0, 0, 1, 0, 0>>],
            [str |-> "", transform |-> <<1, 0, 0, 1, 2, 3>>],
            [str |-> "b", transform |-> <<3, 4, 0 - 4, 3, 2, 5>>] >>
  ELSE IF p = 2
    THEN << [str |-> "", transform |-> <<2, 0, 0, 2, 1, 1>>],
            [str |-> "c", transform |-> <<0, 2, 0 - 2, 0, 4, 1>>] >>
  ELSE << [str |-> "d", transform |-> <<2, 0, 0, 2, 1, 1>>] >>

\* page.getViewport({scale}).transform of an unrotated page whose box starts
\* at the origin (line 225), in quarters of a pixel
ViewportTransform(s) == <<s, 0, 0, 0 - s, 0, s * PageHeight>>

\* pdfjsLib.Util.transform(m1, m2) (lines 253-254)
Transform(m1, m2) ==
  << m1[1] * m2[1] + m1[3] * m2[2],
     m1[2] * m2[1] + m1[4] * m2[2],
     m1[1] * m2[3] + m1[3] * m2[4],
     m1[2] * m2[3] + m1[4] * m2[4],
     m1[1] * m2[5] + m1[3] * m2[6] + m1[5],
     m1[2] * m2[5] + m1[4] * m2[6] + m1[6] >>

\* Math.sqrt on a perfect square
Sqrt(n) == CHOOSE r \in 0..n : r * r = n

\* lines 253-256
SpanTransform(vt, item) ==
  Transform(Transform(vt, item.transform), <<1, 0, 0, 0 - 1, 0, 0>>)

\* a faulty variant: the font height is the horizontal extent only
FontHeightHorizontal(tx) == Sqrt(tx[1] * tx[1])

\* line 262
FontHeight(tx) == Sqrt(tx[1] * tx[1] + tx[2] * tx[2])

\* lines 258-263: the span of one text run
Span(vt, item) ==
  LET tx == SpanTransform(vt, item) IN
    [str |-> item.str, left |-> tx[5], top |-> tx[6], fontSize |-> FontHeight(tx)]

\* lines 251-267: forEach over the runs, one span appended per run with a
\* non-empty str
RECURSIVE BuildSpans(_, _)
BuildSpans(items, vt) ==
  IF items = <<>> THEN <<>>
  ELSE (IF Head(items).str # "" THEN <<Span(vt, Head(items))>> ELSE <<>>)
         \o BuildSpans(Tail(items), vt)

\* the scales a viewport can be built with: those zoomIn, zoomOut and
\* resetZoom produce and those the host assigns
Scales ==
  MinScale..Max(MaxScale, CHOOSE v \in HostScales : \A w \in HostScales : w <= v)

\* lines 246-267 for page p through the viewport of scale s
PageSpans ==
  [p \in Pages |-> [s \in Scales |->
     BuildSpans(TextContent(p), ViewportTransform(s))]]

\* a faulty variant: the spans of the earlier render stay in the layer
KeepTextLayer(old) == old

\* line 247: textLayerDiv.innerHTML = ''
ClearTextLayer(old) == <<>>

Swap(p, t, nt) == [tasks EXCEPT ![p] = (@ \ {t}) \cup {nt}]
Drop(p, t) == [tasks EXCEPT ![p] = @ \ {t}]

\* the canvas of page p is being drawn into by a render of this generation
CanvasInUse(p) ==
  \E u \in tasks[p] : u.pc = "render" /\ u.gen = domGen

\* the elements a task holds are the ones displayed
Attached(t) == t.gen = domGen

\* a faulty variant: every render puts a new canvas and text layer in the page
ElementsAllocated(el) ==
  [canvas |-> el.canvas + 1, textLayer |-> el.textLayer + 1]

\* lines 227-235: renderPage looks the page's canvas and text layer up with
\* querySelector and creates neither: the elements after a render
ElementsAfterRender(el) == el

\* getPage resolves: lines 225-242.  page.render on a canvas another render
\* is still drawing into is rejected by the backend
GetPageResolved(p, t) ==
  /\ t \in tasks[p]
  /\ t.pc = "getPage"
  /\ lastOp' = Op(IF p \in PageContainers THEN "resolved" ELSE "returned",
                  0, {}, <<>>, <<>>)
  /\ UNCHANGED <<docVars, scale, currentPage, textLayer, listeners, spans,
                 scrolledTo, reported, started, zoomedMid, renders, zooms,
                 faults>>
  /\ IF p \in PageContainers
       THEN /\ canvasSize' = [canvasSize EXCEPT ![p] = scale]
            /\ canvasPixels' = [canvasPixels EXCEPT ![p] = NoScale]
            /\ drawnDoc' = [drawnDoc EXCEPT ![p] = NoDoc]
            /\ pageElements' = ElementsAfterRender(pageElements)
            /\ tasks' = Swap(p, t,
                 [id |-> t.id,
                  pc |-> IF CanvasInUse(p) THEN "renderConflict" ELSE "render",
                  vs |-> scale, gen |-> domGen, doc |-> t.doc])
            /\ conflicted' = (conflicted \/ CanvasInUse(p))
            /\ UNCHANGED renderingPages
       ELSE /\ tasks' = Drop(p, t)
            /\ renderingPages' = FinallyPages(renderingPages, p)
            /\ UNCHANGED <<canvasSize, canvasPixels, drawnDoc, pageElements,
                           conflicted>>

\* page.render resolves: the canvas holds the page drawn through t's viewport
RenderResolved(p, t) ==
  /\ t \in tasks[p]
  /\ t.pc = "render"
  /\ canvasPixels' = IF Attached(t) THEN [canvasPixels EXCEPT ![p] = t.vs]
                     ELSE canvasPixels
  /\ drawnDoc' = IF Attached(t) THEN [drawnDoc EXCEPT ![p] = t.doc]
                 ELSE drawnDoc
  /\ tasks' = Swap(p, t, [t EXCEPT !.pc = "text"])
  /\ lastOp' = Op("resolved", 0, {}, <<>>, <<>>)
  /\ UNCHANGED <<docVars, scale, currentPage, renderingPages, canvasSize,
                 textLayer, listeners, spans, pageElements, scrolledTo,
                 reported, started, zoomedMid, renders, zooms, faults,
                 conflicted>>

\* getTextContent resolves: lines 247-270, then finally (line 274)
TextResolved(p, t) ==
  /\ t \in tasks[p]
  /\ t.pc = "text"
  /\ IF Attached(t)
       THEN /\ textLayer' = [textLayer EXCEPT ![p] = t.vs]
            /\ spans' = [spans EXCEPT ![p] =
                            ClearTextLayer(@) \o
                              PageSpans[p][t.vs]]
            /\ listeners' = [listeners EXCEPT ![p] = @ + 1]
       ELSE UNCHANGED <<textLayer, spans, listeners>>
  /\ UNCHANGED <<drawnDoc, pageElements>>
  /\ tasks' = Drop(p, t)
  /\ renderingPages' = FinallyPages(renderingPages, p)
  /\ lastOp' = Op("resolved", 0, {}, <<>>, <<>>)
  /\ UNCHANGED <<docVars, scale, currentPage, canvasSize, canvasPixels,
                 scrolledTo, reported, started, zoomedMid, renders, zooms, faults, conflicted>>

\* the events the catch block of renderPage dispatches to the host (lines
\* 271-272: it logs to the console; no dispatchEvent, no state for the page)
RenderPageCatchEvents(pageNum) == <<>>

\* an awaited promise rejects: catch (lines 271-272), then finally (line 274)
Rejected(p, t) ==
  /\ t \in tasks[p]
  /\ IF t.pc = "renderConflict"
       THEN UNCHANGED faults
       ELSE /\ faults < MaxFaults
            /\ faults' = faults + 1
  /\ tasks' = Drop(p, t)
  /\ renderingPages' = FinallyPages(renderingPages, p)
  /\ lastOp' = Op("rejected", 0, {}, <<>>, RenderPageCatchEvents(p))
  /\ UNCHANGED <<docVars, scale, currentPage, domVars, scrolledTo, reported,
                 started, zoomedMid, renders, zooms, conflicted>>

\* ---- navigation (lines 322-341) ----

\* a faulty variant: an out-of-range page is clamped to the nearest page
GoToPageClamped(page) ==
  IF PageContainers = {} THEN 0 ELSE Min(Max(page, 1), numPages)

\* the page goToPage scrolls to and makes current, 0 when it returns early
GoToPageTarget(page) ==
  IF page < 1 \/ page > numPages THEN 0
  ELSE IF page \in PageContainers THEN page ELSE 0

GoTo(page, name) ==
  /\ IF GoToPageTarget(page) # 0
       THEN /\ scrolledTo' = GoToPageTarget(page)
            /\ currentPage' = GoToPageTarget(page)
       ELSE UNCHANGED <<scrolledTo, currentPage>>
  /\ lastOp' = Op(name, page, {}, <<>>, <<>>)
  /\ UNCHANGED <<docVars, scale, renderingPages, tasks, domVars, reported,
                 started, zoomedMid, renders, zooms, faults, conflicted>>

GoToPage(page) == GoTo(page, "goToPage")
NextPage == GoTo(currentPage + 1, "nextPage")
PrevPage == GoTo(currentPage - 1, "prevPage")

\* ---- selection (lines 269-270, 290-308) ----

\* String.prototype.trim on a string of Chars
TrimStart(s) == IF s # <<>> /\ Head(s) = " " THEN SubSeq(s, 2, Len(s)) ELSE s
TrimEnd(s) == IF s # <<>> /\ s[Len(s)] = " " THEN SubSeq(s, 1, Len(s) - 1) ELSE s
RECURSIVE TrimStartAll(_), TrimEndAll(_)
TrimStartAll(s) == IF TrimStart(s) = s THEN s ELSE TrimStartAll(TrimStart(s))
TrimEndAll(s) == IF TrimEnd(s) = s THEN s ELSE TrimEndAll(TrimEnd(s))
\* a faulty variant: only the leading whitespace is removed
TrimLeadingOnly(s) == TrimStartAll(s)

Trim(s) == TrimEndAll(TrimStartAll(s))

Selections == UNION {[1..n -> Chars] : n \in 0..MaxSelLen}

\* handleTextSelection(pageNum) with window.getSelection().toString() = sel:
\* the events it dispatches
HandleTextSelection(pageNum, sel) ==
  IF Trim(sel) # <<>> THEN <<[text |-> Trim(sel), page |-> pageNum]>> ELSE <<>>

RECURSIVE Repeat(_, _)
Repeat(n, s) == IF n = 0 THEN <<>> ELSE s \o Repeat(n - 1, s)

\* a mouseup on the text layer of page p: every listener registered on it
\* (line 270) runs handleTextSelection(p).  A text layer no render has
\* completed on has no listener, and no code of the component runs.
MouseUp(p, sel) ==
  /\ p \in PageContainers
  /\ listeners[p] >= 1
  /\ lastOp' = Op("mouseup", p, {}, sel,
                  Repeat(listeners[p], HandleTextSelection(p, sel)))
  /\ UNCHANGED <<docVars, scale, currentPage, renderingPages, tasks, domVars,
                 scrolledTo, reported, started, zoomedMid, renders, zooms, faults, conflicted>>

\* ---- disposal (lines 399-404) ----

\* disconnectedCallback: the observer, if any, is disconnected
Disconnect ==
  /\ connected
  /\ connected' = FALSE
  /\ observer' = 0
  /\ liveObservers' = AfterDisconnect(liveObservers, observer)
  /\ lastOp' = Op("disconnect", 0, {}, <<>>, <<>>)
  /\ UNCHANGED <<pdfUrl, scale, pdf, numPages, loading, error, currentPage,
                 renderingPages, loadTasks, tasks, domGen, domVars, scrolledTo,
                 reported, started, zoomedMid, renders, zooms, faults,
                 conflicted>>

TaskStates == UNION {tasks[p] : p \in Pages}

\* the first assignment of pdfUrl, a later one when no load is pending, and
\* one while a load is pending
OpenFirst(u) == pdfUrl = NoDoc /\ Open(u)
Reopen(u) == pdfUrl # NoDoc /\ NoLoadInFlight /\ Open(u)
Overlap(u) == ~NoLoadInFlight /\ Open(u)

\* a rejection the code's own concurrent render causes, and one of the backend
RenderConflict(p, t) == t.pc = "renderConflict" /\ Rejected(p, t)
BackendFault(p, t) == t.pc # "renderConflict" /\ Rejected(p, t)
\* the backend rejects getPage (line 224)
GetPageFault(p, t) == t.pc = "getPage" /\ BackendFault(p, t)

TaskResolved ==
  \/ \E p \in Pages : \E t \in TaskStates : GetPageResolved(p, t)
  \/ \E p \in Pages : \E t \in TaskStates : RenderResolved(p, t)
  \/ \E p \in Pages : \E t \in TaskStates : TextResolved(p, t)

TaskProgress ==
  \/ TaskResolved
  \/ \E p \in Pages : \E t \in TaskStates : RenderConflict(p, t)

ScaleNext ==
  \/ ZoomIn
  \/ ZoomOut
  \/ ResetZoom
  \/ \E v \in HostScales : SetScale(v)

\* loads and reloads, visibility, zoom, renders and backend faults.  Navigation
\* and pointer releases neither read nor write the state of the renders and
\* have their own specifications below.
Next ==
  \/ \E u \in Sources : OpenFirst(u)
  \/ \E u \in Sources : Reopen(u)
  \/ LoadResolved
  \/ LoadRejected
  \/ \E batch \in SUBSET Pages : Observe(batch)
  \/ ScaleNext
  \/ TaskProgress
  \/ \E p \in Pages : \E t \in TaskStates : BackendFault(p, t)

\* one document, visibility, zoom and renders whose backend does not fail
ZoomNext ==
  \/ \E u \in Sources : OpenFirst(u)
  \/ LoadResolved
  \/ \E batch \in SUBSET Pages : Observe(batch)
  \/ ScaleNext
  \/ TaskProgress

\* loads and navigation
NavNext ==
  \/ \E u \in Sources : Attach(u)
  \/ \E u \in Sources : OpenFirst(u)
  \/ \E u \in Sources : Reopen(u)
  \/ \E u \in Sources : Overlap(u)
  \/ LoadResolved
  \/ LoadRejected
  \/ \E page \in 0..(MaxPages + 1) : GoToPage(page)
  \/ NextPage
  \/ PrevPage

\* one document, visibility, renders and pointer releases (without a zoom, no
\* two renders of a page overlap, so no page.render is refused)
SelectNext ==
  \/ \E u \in Sources : OpenFirst(u)
  \/ LoadResolved
  \/ \E batch \in SUBSET Pages : Observe(batch)
  \/ TaskResolved
  \/ \E p \in Pages : \E sel \in Selections : MouseUp(p, sel)

\* one document, visibility and renders whose backend may fail
FaultNext ==
  \/ \E u \in Sources : OpenFirst(u)
  \/ LoadResolved
  \/ \E batch \in SUBSET Pages : Observe(batch)
  \/ TaskResolved
  \/ \E p \in Pages : \E t \in TaskStates : BackendFault(p, t)

\* loads, visibility, renders and the removal of the element from the document
DisposeNext ==
  \/ \E u \in Sources : OpenFirst(u)
  \/ \E u \in Sources : Reopen(u)
  \/ LoadResolved
  \/ LoadRejected
  \/ \E batch \in SUBSET Pages : Observe(batch)
  \/ TaskResolved
  \/ Disconnect

\* loads and reloads, visibility notifications of one page each, and renders
\* whose page fetch may fail (catch and finally are the same for every await)
LiveNext ==
  \/ \E u \in Sources : OpenFirst(u)
  \/ \E u \in Sources : Reopen(u)
  \/ LoadResolved
  \/ \E p \in Pages : Observe({p})
  \/ TaskResolved
  \/ \E p \in Pages : \E t \in TaskStates : GetPageFault(p, t)

Spec == Init /\ [][Next]_vars
SpecZoom == Init /\ [][ZoomNext]_vars
SpecNav == Init /\ [][NavNext]_vars
SpecSelect == Init /\ [][SelectNext]_vars
SpecFault == Init /\ [][FaultNext]_vars
SpecDispose == Init /\ [][DisposeNext]_vars
\* the promises of the backend settle: a suspended renderPage is resumed
SpecLive == Init /\ [][LiveNext]_vars /\ WF_vars(TaskResolved)

\* ======================= the claims =======================

InRange(s) == MinScale <= s /\ s <= MaxScale
ZoomOps == {"zoomIn", "zoomOut", "resetZoom"}

\* the page shows a raster and an overlay and no render of it is in flight
Rendered(p) ==
  /\ p \in PageContainers
  /\ tasks[p] = {}
  /\ canvasPixels[p] # NoScale
  /\ textLayer[p] # NoScale

\* C1: at every instant, every page has at most one render in flight (the code
\* cancels no render, so every render in flight is a non-cancelled one).
C1_SingleRender == \A p \in Pages : InFlight(p) <= 1

\* C2: whenever a render is requested for a page that has a render in flight,
\* the renders in flight are gone (cancelled) in the same step and the page's
\* only render is a new one, started by this request.
C2_CancelBeforeStart ==
  [][\A p \in lastOp'.pages :
       tasks[p] # {} =>
         /\ tasks'[p] # {}
         /\ \A t \in tasks'[p] : t.id > renders /\ t.pc = "getPage"]_vars

\* C3: if the scale changed while a render of page p was in flight, then once
\* every render of p has settled (and no backend promise failed for a reason
\* of the backend's), p's canvas is sized and drawn at the latest scale.
C3_LatestScaleWins ==
  \A p \in zoomedMid :
    (tasks[p] = {} /\ faults = 0) =>
      (canvasSize[p] = scale /\ canvasPixels[p] = scale)

\* C4: every rendered page with no render in flight has its canvas size, its
\* canvas pixels and its text layer produced with one scale (in runs where no
\* backend promise was rejected at all).
C4_RasterOverlaySameScale ==
  (faults = 0 /\ ~conflicted) =>
    \A p \in Pages :
      Rendered(p) =>
        (canvasSize[p] = canvasPixels[p] /\ canvasPixels[p] = textLayer[p])

C6_ZoomResultInRange == lastOp.op \in ZoomOps => InRange(scale)

\* C7: after the host assigns any number to the scale, the viewer's scale and
\* the scale of every render's viewport are in [0.5, 3.0].
C7_HostScaleClamped ==
  /\ InRange(scale)
  /\ \A p \in Pages : \A t \in tasks[p] : t.vs = NoScale \/ InRange(t.vs)

\* C8: with an N-page document displayed, goToPage(p) with p < 1 or p > N,
\* nextPage() at page N and prevPage() at page 1 change neither the current
\* page nor the scroll target, and goToPage(p) with 1 <= p <= N makes p the
\* current page.
C8_NavigationBounds ==
  [][PagesDisplayed =>
       /\ (lastOp'.op = "goToPage" /\ (lastOp'.arg < 1 \/ lastOp'.arg > numPages))
            => UNCHANGED <<currentPage, scrolledTo>>
       /\ (lastOp'.op = "nextPage" /\ currentPage = numPages)
            => UNCHANGED <<currentPage, scrolledTo>>
       /\ (lastOp'.op = "prevPage" /\ currentPage = 1)
            => UNCHANGED <<currentPage, scrolledTo>>
       /\ (lastOp'.op = "goToPage" /\ lastOp'.arg \in 1..numPages)
            => currentPage' = lastOp'.arg]_vars

C8_Witness ==
  /\ PagesDisplayed
  /\ lastOp.op = "goToPage"
  /\ lastOp.arg = numPages + 1
  /\ currentPage = 2
  /\ scrolledTo = 2

\* C9: a render is started only for pages that were reported as intersecting.
C9_OnlyReportedPagesRender == started \subseteq reported

\* t is s without its leading and trailing spaces
IsTrimOf(t, s) ==
  \E i \in 0..Len(s) : \E j \in 0..Len(s) :
    /\ i + Len(t) + j = Len(s)
    /\ \A k \in 1..i : s[k] = " "
    /\ \A k \in (Len(s) - j + 1)..Len(s) : s[k] = " "
    /\ \A k \in 1..Len(t) : t[k] = s[i + k]
    /\ t # <<>> => (t[1] # " " /\ t[Len(t)] # " ")

C11_LoadFailedOnce ==
  lastOp.op = "loadRejected" =>
    Cardinality({k \in 1..Len(lastOp.ev) : lastOp.ev[k].type = "load-failed"}) = 1

\* the viewer shows the error text (render(), lines 348-350)
ErrorDisplayed == ~loading /\ error

\* C12: once the viewer shows the error of a failed load, every later step
\* leaves it showing the error.
C12_ErrorIsTerminal == [][ErrorDisplayed => ErrorDisplayed']_vars

\* C13: a step in which a render of page p fails emits a page-render-failed
\* event that carries p.
C13_PageRenderFailedReported ==
  [][lastOp'.op = "rejected" =>
       \A p \in Pages :
         tasks'[p] # tasks[p] =>
           \E k \in 1..Len(lastOp'.ev) :
             /\ lastOp'.ev[k].type = "page-render-failed"
             /\ lastOp'.ev[k].page = p]_vars

\* C14: a step in which a render of page p fails leaves, for every other page
\* q, the renders of q in flight, q's membership of the in-flight set, q's
\* canvas and q's text layer as they were, and leaves the document and the
\* load state as they were.
C14_FailureIsolation ==
  [][lastOp'.op = "rejected" =>
       \A p \in Pages :
         tasks'[p] # tasks[p] =>
           /\ \A q \in Pages \ {p} :
                /\ tasks'[q] = tasks[q]
                /\ (q \in renderingPages') = (q \in renderingPages)
                /\ canvasSize'[q] = canvasSize[q]
                /\ canvasPixels'[q] = canvasPixels[q]
                /\ textLayer'[q] = textLayer[q]
                /\ spans'[q] = spans[q]
                /\ listeners'[q] = listeners[q]
           /\ UNCHANGED <<pdf, numPages, loading, error, loadTasks>>]_vars

C14_Witness ==
  /\ lastOp.op = "rejected"
  /\ faults = 1
  /\ PagesDisplayed
  /\ tasks[1] = {}
  /\ 2 \in renderingPages
  /\ \E t \in tasks[2] : t.pc = "render"

\* C15: once the element is removed from the document it has no visibility
\* subscription, whatever completes later.
C15_NoSubscriptionAfterDispose == ~connected => observer = 0

\* C16: a freshly created viewer has scale 1.5, and after resetZoom() the
\* scale is 1.5 whatever it was before.
C16_ResetToDefault == lastOp.op \in {"init", "resetZoom"} => scale = 6

C16_Witness ==
  /\ lastOp.op = "resetZoom"
  /\ zooms = 2
  /\ scale = 6

\* the k-th text run of page p that has a non-empty str
ShownRun(p, k) ==
  LET items == TextContent(p) IN
    items[CHOOSE i \in 1..Len(items) :
            /\ items[i].str # ""
            /\ Cardinality({j \in 1..i : items[j].str # ""}) = k]

Superseded(p, t) == \E u \in tasks[p] : u.id > t.id

\* C18: a step taken by a render that has been superseded writes neither the
\* page's canvas nor its text layer.
C18_SupersededNeverCompletes ==
  [][\A p \in Pages : \A t \in tasks[p] :
       (Superseded(p, t) /\ t \notin tasks'[p]) =>
         /\ canvasSize'[p] = canvasSize[p]
         /\ canvasPixels'[p] = canvasPixels[p]
         /\ textLayer'[p] = textLayer[p]
         /\ spans'[p] = spans[p]]_vars

\* C19: a visibility notification starts no render for a page that is
\* rendered at the current scale.
C19_NoRerenderWhenCurrent ==
  [][lastOp'.op = "observe" =>
       \A p \in lastOp'.pages :
         (Rendered(p) /\ canvasSize[p] = scale /\ canvasPixels[p] = scale
            /\ textLayer[p] = scale) => tasks'[p] = {}]_vars

\* C20: the text layer of a page is empty until a render completes on it, and
\* from then on holds exactly one span per text run with a non-empty str, in
\* the order of the runs, every span built through the viewport of the render
\* that completed last.
C20_OverlayRebuilt ==
  \A p \in Pages :
    IF textLayer[p] = NoScale THEN spans[p] = <<>>
    ELSE /\ Len(spans[p]) =
              Cardinality({i \in 1..Len(TextContent(p)) : TextContent(p)[i].str # ""})
         /\ \A k \in 1..Len(spans[p]) :
              /\ spans[p][k].str = ShownRun(p, k).str
              /\ spans[p][k] = Span(ViewportTransform(textLayer[p]), ShownRun(p, k))

C20_Witness ==
  /\ PagesDisplayed
  /\ listeners[1] = 2
  /\ textLayer[1] = 7
  /\ Len(spans[1]) = 2
  /\ spans[1][2].str = "b"

\* C21: the top of every span is the vertical translation of the composite
\* transform, s*(PageHeight - T[6]), moved up by the span's font height.
C21_BaselineCorrected ==
  \A p \in Pages : \A k \in 1..Len(spans[p]) :
    spans[p][k].top =
      textLayer[p] * (PageHeight - ShownRun(p, k).transform[6]) - spans[p][k].fontSize

\* C22: the shadow DOM holds one canvas and one text layer per displayed page,
\* after any number of renders and re-renders.
C22_OneSurfacePerPage ==
  /\ pageElements.canvas = Cardinality(PageContainers)
  /\ pageElements.textLayer = Cardinality(PageContainers)

C22_Witness ==
  /\ PagesDisplayed
  /\ numPages = 1
  /\ zooms = 1
  /\ listeners[1] = 2
  /\ pageElements = [canvas |-> 1, textLayer |-> 1]

\* C23: a pointer release in a page's overlay with a selection that is not
\* blank emits exactly one text-selected event.
C23_OneEventPerRelease ==
  (lastOp.op = "mouseup" /\ \E k \in 1..Len(lastOp.sel) : lastOp.sel[k] # " ")
    => Len(lastOp.ev) = 1

\* C24: whenever the pages of a document are displayed, the current page is
\* one of them.
C24_CurrentPageInDocument ==
  PagesDisplayed => (1 <= currentPage /\ currentPage <= numPages)

\* C25: when no load is in flight and a document is displayed, it is the
\* document of the source set last.
C25_LatestSourceWins == (NoLoadInFlight /\ PagesDisplayed) => pdf = pdfUrl

\* C26: the canvas of every displayed page is blank or holds a page of the
\* document that is loaded.
C26_NoDrawFromOldDocument ==
  \A p \in PageContainers : drawnDoc[p] \in {NoDoc, pdf}

\* C27: a step in which a load completes successfully and leaves no load in
\* flight leaves the viewer displaying the document.
C27_DisplayedAfterSuccess ==
  [][(lastOp'.op = "loadResolved" /\ NoLoadInFlight') => (~loading' /\ ~error')]_vars

\* C28: the first update of a viewer created with its source set, and an
\* assignment of the source, each start exactly one load of that source.
C28_OneLoadPerAssignment ==
  [][lastOp'.op \in {"attach", "open"} =>
       loadTasks'[lastOp'.arg] = loadTasks[lastOp'.arg] + 1]_vars

\* C29: the step in which a render of page p ends, by completing, failing or
\* returning early, leaves p out of the in-flight set, and every page in the
\* in-flight set eventually leaves it (no page stays in the set for ever).
C29_InFlightReleased ==
  /\ [][\A p \in Pages : \A t \in tasks[p] :
          (\A u \in tasks'[p] : u.id # t.id) => p \notin renderingPages']_vars
  /\ \A p \in Pages : []<>(p \notin renderingPages)

C29_Witness ==
  /\ lastOp.op = "returned"
  /\ loading
  /\ renderingPages = {}
  /\ TaskStates = {}

\* C30: at most one visibility observer is live.
C30_SingleObserver == liveObservers <= 1

C30_Witness ==
  /\ lastOp.op = "loadResolved"
  /\ domGen = 2
  /\ observer = 2
  /\ liveObservers = 1
  /\ NoLoadInFlight

====
